---- MODULE Spec2Model ----
(***************************************************************************)
(* A model of the audio n-back task engine: the sequence generator         *)
(* (game/sequence-generator.js), the scorer (game/scorer.js) and the       *)
(* trial engine (game/game-engine.js), with the constants of               *)
(* utils/constants.js.                                                     *)
(*                                                                         *)
(* JavaScript numbers are modelled as exact rationals num/den; NaN and     *)
(* undefined are explicit values.  JavaScript arrays are 0-indexed: an     *)
(* array is a TLA+ sequence a with element i at a[i + 1].                  *)
(***************************************************************************)
EXTENDS Integers, Sequences, FiniteSets, TLC

VARIABLES
    genCall,      \* arguments of the last generateSequence call
    genResult,    \* what that call returned
    scorer,       \* the Scorer instance's six counters
    recorded,     \* history: recordTrial calls per category since the last reset
    results,      \* the value of the last getResults() call
    levelCall,    \* the last calculateNextLevel call: currentN, accuracy, result
    level,        \* the adaptive level over a chain of blocks: from, to
    engine,       \* the GameEngine instance's fields (its scorer is scorer)
    input,        \* the InputManager: enabled, and whether _onPress is subscribed
    calls,        \* the startBlock calls made on the engine, in call order
    timers,       \* the calls suspended in a sleep, in the order the timers were set
    emitted,      \* the notifications the last step dispatched, in order
    played,       \* the sound ids the last step passed to audioManager.play
    now,          \* Date.now(), in milliseconds
    inputManager, \* the InputManager's debounce: enabled, lastInputTime, and
                  \* the press notifications it has dispatched (history)
    app,          \* the App of main.js with its storage, screens and games
    lastCall      \* history: the name of the operation the last step ran

vars == <<genCall, genResult, scorer, recorded, results, levelCall, level,
          engine, input, calls, timers, emitted, played, now, inputManager,
          app, lastCall>>
appVars == <<now, inputManager, app>>
genVars == <<genCall, genResult>>
levelVars == <<levelCall, level>>
engineVars == <<engine, input, calls, timers, emitted, played>>

(***************************************************************************)
(* Bounds of the model.                                                    *)
(***************************************************************************)
\* generateSequence is called with n in 1..MaxN
MaxN == 2
\* ... and with totalTrials in 1..MaxTrials
MaxTrials == 5
\* Math.floor(Math.random() * m) yields one of the first MaxRand values of 0..m-1
MaxRand == 2
\* at most MaxRecorded recordTrial calls between two resets
MaxRecorded == 4
\* at most MaxCalls startBlock calls are made on the engine
MaxCalls == 2
\* startBlock is called with n in 1..MaxBlockN and trialCount in 1..MaxTrialCount
MaxBlockN == 1
MaxTrialCount == 2
\* largest match count a call in the style of the implementation plan asks for
MaxPlanMatches == 2
\* the clock advances by ClockStep milliseconds at a time, up to MaxNow
ClockStep == 100
MaxNow == 1000
\* startGame is called at most MaxGames times, with trialCount in
\* 1..MaxGameTrials, and at most MaxToggles toggles of the settings overlay
\* are clicked
MaxGames == 2
MaxGameTrials == 1
MaxToggles == 1

(***************************************************************************)
(* utils/constants.js                                                      *)
(***************************************************************************)
LETTERS == <<"C", "H", "K", "L", "Q", "R", "S", "T">>

Null == "null"

\* A JavaScript number that may be undefined: num/den, den > 0.
Undefined == [undef |-> TRUE, num |-> 0, den |-> 1]
Rat(a, b) == [undef |-> FALSE, num |-> a, den |-> b]

\* BLOCK has the members BASE_TRIALS and GUARANTEED_MATCHES only: the member
\* MATCH_RATE that generateSequence's default reads is not defined.
BLOCK_BASE_TRIALS == 20
BLOCK_GUARANTEED_MATCHES == 6
BLOCK_MATCH_RATE == Undefined

\* The result of arithmetic that may be NaN.
NaN == [nan |-> TRUE, v |-> 0]
Num(x) == [nan |-> FALSE, v |-> x]

Max(a, b) == IF a >= b THEN a ELSE b
Min(a, b) == IF a <= b THEN a ELSE b

(***************************************************************************)
(* game/sequence-generator.js                                              *)
(***************************************************************************)
\* Math.floor(Math.random() * m): any index of 0..m-1 (the first MaxRand of them)
RandomIndex(m) == 0 .. (Min(m, MaxRand) - 1)

\* Math.round(a / b) for a >= 0, b > 0: halves round up
MathRound(a, b) == (2 * a + b) \div (2 * b)

\* Math.max(1, Math.round(maxPossibleMatches * matchRate)); NaN when matchRate
\* is undefined (undefined converts to NaN, and Math.max with a NaN is NaN)
GuaranteedMatches(maxPossibleMatches, matchRate) ==
    IF matchRate.undef
    THEN NaN
    ELSE Num(Max(1, MathRound(maxPossibleMatches * matchRate.num, matchRate.den)))

\* i < x in JavaScript: false when x is NaN
JsLess(i, x) == (~x.nan) /\ i < x.v

\* [array[i], array[j]] = [array[j], array[i]]
Swap(array, i, j) ==
    [array EXCEPT ![i + 1] = array[j + 1], ![j + 1] = array[i + 1]]

\* shuffleArray from index i down to 1: every array the random draws can leave
RECURSIVE ShuffleFrom(_, _)
ShuffleFrom(array, i) ==
    IF i > 0
    THEN UNION { ShuffleFrom(Swap(array, i, j), i - 1) : j \in RandomIndex(i + 1) }
    ELSE {array}

shuffleArray(array) == ShuffleFrom(array, Len(array) - 1)

\* the loop pushing possibleMatchPositions[0 .. ] while i < actualGuaranteedMatches
\* and i < possibleMatchPositions.length
RECURSIVE PickFrom(_, _, _, _)
PickFrom(possible, count, i, acc) ==
    IF JsLess(i, count) /\ i < Len(possible)
    THEN PickFrom(possible, count, i + 1, Append(acc, possible[i + 1]))
    ELSE acc

\* insert x into the ascending sequence s
RECURSIVE InsertAsc(_, _)
InsertAsc(s, x) ==
    IF s = <<>> THEN <<x>>
    ELSE IF x - Head(s) < 0 THEN <<x>> \o s
    ELSE <<Head(s)>> \o InsertAsc(Tail(s), x)

\* the faulty variant: the picked positions are left in shuffled order
SortNone(s) == s

\* array.sort((a, b) => a - b)
RECURSIVE SortAsc(_)
SortAsc(s) == IF s = <<>> THEN <<>> ELSE InsertAsc(SortAsc(Tail(s)), Head(s))

\* array.includes(x)
Includes(array, x) == \E k \in 1..Len(array) : array[k] = x

\* randomLetter(): the letters it can return
randomLetter == { LETTERS[j + 1] : j \in RandomIndex(Len(LETTERS)) }

\* LETTERS.filter(l => l !== excludeLetter)
FilterOut(excludeLetter) == SelectSeq(LETTERS, LAMBDA l : l # excludeLetter)

\* the faulty variant: the excluded letter is not filtered out
randomNonMatchingLetterAny(excludeLetter) ==
    { LETTERS[j + 1] : j \in RandomIndex(Len(LETTERS)) }

\* randomNonMatchingLetter(excludeLetter): the letters it can return
randomNonMatchingLetter(excludeLetter) ==
    LET filtered == FilterOut(excludeLetter)
    IN  { filtered[j + 1] : j \in RandomIndex(Len(filtered)) }

\* the faulty variant: a match position copies its left neighbour
CopyBackOne(letters, i, n) == IF i >= 1 THEN letters[(i - 1) + 1] ELSE Null

\* letters[i - n], the letter a match position copies
CopyBack(letters, i, n) == letters[(i - n) + 1]

\* the body of the loops of Steps 2 and 3 at index i: every letters array the
\* random draw can leave
FillAt(letters, i, n, matchPositions) ==
    IF i < n
    THEN { [letters EXCEPT ![i + 1] = c] : c \in randomLetter }
    ELSE IF Includes(matchPositions, i)
    THEN { [letters EXCEPT ![i + 1] = CopyBack(letters, i, n)] }
    ELSE { [letters EXCEPT ![i + 1] = c]
           : c \in randomNonMatchingLetter(letters[(i - n) + 1]) }

\* the faulty variant: the last index is left as the array was created
RECURSIVE FillFromShort(_, _, _, _, _)
FillFromShort(filledSoFar, i, n, totalTrials, matchPositions) ==
    IF i >= totalTrials - 1 THEN filledSoFar
    ELSE FillFromShort(UNION { FillAt(letters, i, n, matchPositions)
                               : letters \in filledSoFar },
                       i + 1, n, totalTrials, matchPositions)

\* Steps 2 and 3 of generateSequence from index i on, in index order, from
\* each of the arrays filled so far
RECURSIVE FillFrom(_, _, _, _, _)
FillFrom(filledSoFar, i, n, totalTrials, matchPositions) ==
    IF i >= totalTrials THEN filledSoFar
    ELSE FillFrom(UNION { FillAt(letters, i, n, matchPositions)
                          : letters \in filledSoFar },
                  i + 1, n, totalTrials, matchPositions)

\* generateSequence(n, totalTrials, matchRate): every value it can return.
\* An argument that is Undefined takes the parameter's default.
generateSequence(n, totalTrialsArg, matchRateArg) ==
    LET matchRate == IF matchRateArg.undef THEN BLOCK_MATCH_RATE ELSE matchRateArg
        totalTrials == Max(totalTrialsArg, n + 1)
        maxPossibleMatches == totalTrials - n
        actualGuaranteedMatches == GuaranteedMatches(maxPossibleMatches, matchRate)
        possibleMatchPositions == [k \in 1..(totalTrials - n) |-> n + k - 1]
        blank == [k \in 1..totalTrials |-> Null]
    IN  UNION {
          LET matchPositions == SortAsc(PickFrom(shuffled, actualGuaranteedMatches,
                                                 0, <<>>))
          IN  { [letters |-> filled, matchPositions |-> matchPositions,
                 n |-> n, totalTrials |-> totalTrials]
                : filled \in FillFrom({blank}, 0, n, totalTrials, matchPositions) }
          : shuffled \in shuffleArray(possibleMatchPositions) }

NoSequence == [letters |-> <<>>, matchPositions |-> <<>>, n |-> 0, totalTrials |-> 0]
NoCall == [n |-> 0, totalTrials |-> 0, matchRate |-> Undefined]

\* The match rates generateSequence is called with: left out (the default), or
\* one of these fractions of (0, 1]
MatchRates == { Undefined, Rat(1, 4), Rat(3, 10), Rat(1, 2), Rat(1, 1) }

(***************************************************************************)
(* game/scorer.js                                                          *)
(***************************************************************************)
ADAPTIVE_MIN_N == 1
ADAPTIVE_MAX_N == 9
\* ADAPTIVE.INCREASE_THRESHOLD (0.85) and ADAPTIVE.DECREASE_THRESHOLD (0.70)
INCREASE_THRESHOLD == Rat(85, 100)
DECREASE_THRESHOLD == Rat(70, 100)

\* a >= b and a < b on num/den with positive denominators
RatGeq(a, b) == a.num * b.den >= b.num * a.den
RatLess(a, b) == a.num * b.den < b.num * a.den

\* Scorer.reset(): the six counters at 0
ScorerReset ==
    [hits |-> 0, misses |-> 0, falseAlarms |-> 0, correctRejections |-> 0,
     totalMatches |-> 0, totalNonMatches |-> 0]

\* the faulty variant: a response on a non-match is tallied as a hit
RecordTrialHitOnAnyPress(s, userPressed, wasMatch) ==
    IF userPressed
    THEN [s EXCEPT !.totalMatches = @ + 1, !.hits = @ + 1]
    ELSE IF wasMatch THEN [s EXCEPT !.totalMatches = @ + 1, !.misses = @ + 1]
    ELSE [s EXCEPT !.totalNonMatches = @ + 1, !.correctRejections = @ + 1]

\* the faulty variant: a match is tallied without counting it in totalMatches
RecordTrialUncountedMatch(s, userPressed, wasMatch) ==
    IF wasMatch
    THEN IF userPressed
         THEN [s EXCEPT !.hits = @ + 1]
         ELSE [s EXCEPT !.misses = @ + 1]
    ELSE IF userPressed
         THEN [s EXCEPT !.totalNonMatches = @ + 1, !.falseAlarms = @ + 1]
         ELSE [s EXCEPT !.totalNonMatches = @ + 1, !.correctRejections = @ + 1]

\* Scorer.recordTrial(userPressed, wasMatch) on the counters s
RecordTrial(s, userPressed, wasMatch) ==
    IF wasMatch
    THEN IF userPressed
         THEN [s EXCEPT !.totalMatches = @ + 1, !.hits = @ + 1]
         ELSE [s EXCEPT !.totalMatches = @ + 1, !.misses = @ + 1]
    ELSE IF userPressed
         THEN [s EXCEPT !.totalNonMatches = @ + 1, !.falseAlarms = @ + 1]
         ELSE [s EXCEPT !.totalNonMatches = @ + 1, !.correctRejections = @ + 1]

\* the faulty variant: the rates are divided without the zero guard
GetResultsUnguarded(s) ==
    LET hitRate == Rat(s.hits, s.totalMatches)
        correctRejectionRate == Rat(s.correctRejections, s.totalNonMatches)
    IN  [hits |-> s.hits, misses |-> s.misses, falseAlarms |-> s.falseAlarms,
         correctRejections |-> s.correctRejections,
         accuracy |-> Rat(hitRate.num * correctRejectionRate.den
                            + correctRejectionRate.num * hitRate.den,
                          2 * hitRate.den * correctRejectionRate.den),
         hitRate |-> hitRate, correctRejectionRate |-> correctRejectionRate]

\* Scorer.getResults() on the counters s
GetResults(s) ==
    LET hitRate == IF s.totalMatches > 0 THEN Rat(s.hits, s.totalMatches)
                   ELSE Rat(0, 1)
        correctRejectionRate ==
            IF s.totalNonMatches > 0
            THEN Rat(s.correctRejections, s.totalNonMatches)
            ELSE Rat(0, 1)
        \* (hitRate + correctRejectionRate) / 2
        accuracy == Rat(hitRate.num * correctRejectionRate.den
                          + correctRejectionRate.num * hitRate.den,
                        2 * hitRate.den * correctRejectionRate.den)
    IN  [hits |-> s.hits, misses |-> s.misses, falseAlarms |-> s.falseAlarms,
         correctRejections |-> s.correctRejections,
         accuracy |-> accuracy, hitRate |-> hitRate,
         correctRejectionRate |-> correctRejectionRate]

\* the faulty variant: the level rises only above the threshold and is not
\* clamped at MAX_N
calculateNextLevelStrict(currentN, accuracy) ==
    IF RatGeq(accuracy, INCREASE_THRESHOLD) /\ accuracy # INCREASE_THRESHOLD
    THEN currentN + 1
    ELSE IF RatLess(accuracy, DECREASE_THRESHOLD)
    THEN Max(currentN - 1, ADAPTIVE_MIN_N)
    ELSE currentN

\* calculateNextLevel(currentN, accuracy)
calculateNextLevel(currentN, accuracy) ==
    IF RatGeq(accuracy, INCREASE_THRESHOLD)
    THEN Min(currentN + 1, ADAPTIVE_MAX_N)
    ELSE IF RatLess(accuracy, DECREASE_THRESHOLD)
    THEN Max(currentN - 1, ADAPTIVE_MIN_N)
    ELSE currentN

\* the category of a trial, as the caller sees it
Category(userPressed, wasMatch) ==
    IF wasMatch THEN (IF userPressed THEN "hit" ELSE "miss")
    ELSE (IF userPressed THEN "falseAlarm" ELSE "correctRejection")

NoResults ==
    [hits |-> 0, misses |-> 0, falseAlarms |-> 0, correctRejections |-> 0,
     accuracy |-> Undefined, hitRate |-> Undefined,
     correctRejectionRate |-> Undefined]
NoRecorded == [hit |-> 0, miss |-> 0, falseAlarm |-> 0, correctRejection |-> 0]
NoLevelCall == [currentN |-> 0, accuracy |-> Undefined, nextLevel |-> 0]

(***************************************************************************)
(* game/game-engine.js                                                     *)
(*                                                                         *)
(* startBlock and runTrial are async functions: each runs without          *)
(* interruption from one await to the next.  A startBlock call is a record *)
(* with the place it is suspended at (pc), its locals, and history fields  *)
(* that no code reads: log (the notifications the call dispatched, and the *)
(* stopped notification of the first stop() while it was pending), k (the  *)
(* totalTrials of the sequence it generated), paused (pause() took effect  *)
(* while it was pending), stopped (the state the first stop() made while   *)
(* it was pending found, or "no"), stateAtReturn, pressDelivered (the      *)
(* press handler was invoked in the response window the call waits in),    *)
(* and startedIn (the state startBlock found when it was called).          *)
(***************************************************************************)
TIMING_ISI == 3000
TIMING_RESPONSE_WINDOW == 2500
\* sleep(100) while paused, sleep(1000) before the level-up sound
PAUSE_POLL_MS == 100
LEVEL_UP_DELAY_MS == 1000

\* the milliseconds of the sleep a call is suspended in
SleepMs(pc) ==
    CASE pc = "window" -> TIMING_RESPONSE_WINDOW
      [] pc = "isi" -> TIMING_ISI - TIMING_RESPONSE_WINDOW
      [] pc = "pausePoll" -> PAUSE_POLL_MS
      [] pc = "levelUp" -> LEVEL_UP_DELAY_MS

Sleeping(pc) == pc \in {"window", "isi", "pausePoll", "levelUp"}

NoCallRec ==
    [pc |-> "none", n |-> 0, trialIndex |-> 0, isMatch |-> FALSE,
     results |-> NoResults, nextLevel |-> 0, ret |-> "pending",
     log |-> <<>>, k |-> 0, paused |-> FALSE, stopped |-> "no",
     stateAtReturn |-> "none", pressDelivered |-> FALSE, startedIn |-> "none"]

\* a startBlock call that has been made and has not settled
Pending(call) == call.pc \notin {"none", "done", "threw"}

ToLowerCase(letter) ==
    CASE letter = "C" -> "c" [] letter = "H" -> "h" [] letter = "K" -> "k"
      [] letter = "L" -> "l" [] letter = "Q" -> "q" [] letter = "R" -> "r"
      [] letter = "S" -> "s" [] letter = "T" -> "t"

\* A step of a startBlock call works on a context x: the engine's fields, the
\* scorer, the input manager, the call's record and what the step has
\* dispatched and played so far.  A dispatched notification carries, beside
\* its detail, the number of sounds the step had played before it (sounds)
\* and the pressed flag at the time of the dispatch (pressed).
Emit(x, event) ==
    [x EXCEPT !.emitted = Append(@, event @@ [sounds |-> Len(x.played),
                                              pressed |-> x.engine.userPressed]),
              !.call.log = Append(@, <<event.type, event.index>>)]
Play(x, sound) == [x EXCEPT !.played = Append(@, sound)]

\* the faulty variant: runTrial leaves the pressed flag as it finds it
RunTrialStartKeepsFlag(x, trialIndex) ==
    LET seq == x.engine.sequence
        isMatch == Includes(seq.matchPositions, trialIndex)
        x1 == [x EXCEPT !.call.pressDelivered = FALSE]
        x2 == Emit(x1, [type |-> "trialStart", index |-> trialIndex,
                        totalTrials |-> seq.totalTrials, isMatch |-> isMatch])
    IN  IF trialIndex < Len(seq.letters)
        THEN [Play(x2, "letter-" \o ToLowerCase(seq.letters[trialIndex + 1]))
                EXCEPT !.call.pc = "window", !.call.trialIndex = trialIndex,
                       !.call.isMatch = isMatch]
        ELSE [x2 EXCEPT !.call.pc = "threw", !.call.stateAtReturn = x2.engine.state]

\* the faulty variant: the stimulus is played before trialStart is dispatched
RunTrialStartSoundFirst(x, trialIndex) ==
    LET seq == x.engine.sequence
        isMatch == Includes(seq.matchPositions, trialIndex)
        x1 == [x EXCEPT !.engine.userPressed = FALSE,
                        !.call.pressDelivered = FALSE]
    IN  IF trialIndex < Len(seq.letters)
        THEN [Emit(Play(x1, "letter-" \o ToLowerCase(seq.letters[trialIndex + 1])),
                   [type |-> "trialStart", index |-> trialIndex,
                    totalTrials |-> seq.totalTrials, isMatch |-> isMatch])
                EXCEPT !.call.pc = "window", !.call.trialIndex = trialIndex,
                       !.call.isMatch = isMatch]
        ELSE [x1 EXCEPT !.call.pc = "threw", !.call.stateAtReturn = x1.engine.state]

\* runTrial(trialIndex) up to its first await; letter.toLowerCase() throws for
\* an index past the end of letters, and the call is rejected
RunTrialStart(x, trialIndex) ==
    LET seq == x.engine.sequence
        isMatch == Includes(seq.matchPositions, trialIndex)
        x1 == [x EXCEPT !.engine.userPressed = FALSE,
                        !.call.pressDelivered = FALSE]
        x2 == Emit(x1, [type |-> "trialStart", index |-> trialIndex,
                        totalTrials |-> seq.totalTrials, isMatch |-> isMatch])
    IN  IF trialIndex < Len(seq.letters)
        THEN [Play(x2, "letter-" \o ToLowerCase(seq.letters[trialIndex + 1]))
                EXCEPT !.call.pc = "window", !.call.trialIndex = trialIndex,
                       !.call.isMatch = isMatch]
        ELSE [x2 EXCEPT !.call.pc = "threw", !.call.stateAtReturn = x2.engine.state]

\* the end of startBlock: the blockComplete notification and the return value
Finish(x, res, nextLevel) ==
    [Emit(x, [type |-> "blockComplete", index |-> 0, results |-> res,
              nextLevel |-> nextLevel, currentN |-> x.engine.currentN])
       EXCEPT !.call.pc = "done", !.call.ret = "result", !.call.results = res,
              !.call.nextLevel = nextLevel,
              !.call.stateAtReturn = x.engine.state]

\* startBlock after its loop
AfterLoop(x) ==
    LET x1 == [x EXCEPT !.input.subscribed = FALSE]
    IN  IF x1.engine.state # "idle"
        THEN LET x2 == [x1 EXCEPT !.engine.state = "complete"]
                 res == GetResults(x2.scorer)
                 nextLevel == calculateNextLevel(x2.engine.currentN, res.accuracy)
                 x3 == Play(x2, "block-complete")
             IN  IF nextLevel > x3.engine.currentN
                 THEN [x3 EXCEPT !.call.pc = "levelUp", !.call.results = res,
                                 !.call.nextLevel = nextLevel]
                 ELSE Finish(x3, res, nextLevel)
        ELSE [x1 EXCEPT !.call.pc = "done", !.call.ret = "null",
                        !.call.stateAtReturn = x1.engine.state]

\* the faulty variant: the loop body without the wait while paused
AfterPauseNoWait(x) ==
    IF x.engine.state = "idle" THEN AfterLoop(x)
    ELSE RunTrialStart(x, x.engine.currentTrial)

\* the loop body after the wait while paused
AfterPause(x) ==
    IF x.engine.state = "paused" THEN [x EXCEPT !.call.pc = "pausePoll"]
    ELSE IF x.engine.state = "idle" THEN AfterLoop(x)
    ELSE RunTrialStart(x, x.engine.currentTrial)

\* the loop of startBlock from its condition on
LoopFrom(x) ==
    IF x.engine.currentTrial < x.engine.sequence.totalTrials
    THEN IF x.engine.state = "idle" THEN AfterLoop(x) ELSE AfterPause(x)
    ELSE AfterLoop(x)

\* the faulty variant: a cue for every trial without a match
FeedbackOnEveryNonMatch(x, isMatch, userPressed) ==
    IF isMatch /\ userPressed THEN Play(x, "hit")
    ELSE IF isMatch /\ ~userPressed THEN Play(x, "miss")
    ELSE Play(x, "false-alarm")

\* the feedback sound of a scored trial, none for a correct rejection
Feedback(x, isMatch, userPressed) ==
    IF isMatch /\ userPressed THEN Play(x, "hit")
    ELSE IF isMatch /\ ~userPressed THEN Play(x, "miss")
    ELSE IF ~isMatch /\ userPressed THEN Play(x, "false-alarm")
    ELSE x

\* runTrial after the response window
AfterWindow(x) ==
    LET userPressed == x.engine.userPressed
        isMatch == x.call.isMatch
        x1 == [x EXCEPT !.scorer = RecordTrial(@, userPressed, isMatch),
                        !.recorded[Category(userPressed, isMatch)] = @ + 1,
                        !.call.pressDelivered = FALSE]
        x2 == Feedback(x1, isMatch, userPressed)
        x3 == Emit(x2, [type |-> "trialEnd", index |-> x.call.trialIndex,
                        userPressed |-> userPressed, wasMatch |-> isMatch,
                        correct |-> (isMatch /\ userPressed)
                                      \/ (~isMatch /\ ~userPressed)])
    IN  IF TIMING_ISI - TIMING_RESPONSE_WINDOW > 0
        THEN [x3 EXCEPT !.call.pc = "isi"]
        ELSE LoopFrom([x3 EXCEPT !.engine.currentTrial = @ + 1])

\* the faulty variant: the loop goes round without its increment
AfterTrialSameIndex(x) == LoopFrom(x)

\* runTrial has returned: the loop's increment and its next round
AfterTrial(x) == LoopFrom([x EXCEPT !.engine.currentTrial = @ + 1])

NoEngineSequence == NoSequence
EngineInit ==
    /\ engine = [state |-> "idle", currentN |-> 2, trialCount |-> 0,
                 sequence |-> NoEngineSequence, currentTrial |-> 0,
                 userPressed |-> FALSE]
    /\ input = [enabled |-> TRUE, subscribed |-> FALSE]
    /\ calls = [c \in 1..MaxCalls |-> NoCallRec]
    /\ timers = <<>>
    /\ emitted = <<>>
    /\ played = <<>>

\* the accuracies calculateNextLevel is called with, in hundredths
Accuracies == { Rat(a, 100) : a \in {0, 50, 65, 69, 70, 71, 77, 84, 85, 86, 95, 100} }

(***************************************************************************)
(* input/input-manager.js: handleInput and its debounce.                   *)
(***************************************************************************)
DEBOUNCE_MS == 200

\* the faulty variant: the time of an input is stored before the debounce
\* test, so a dropped input restarts the interval
handleInputStampsDropped(im, time, eventType) ==
    IF ~im.enabled THEN im
    ELSE IF time - im.lastInputTime < DEBOUNCE_MS
    THEN [im EXCEPT !.lastInputTime = time]
    ELSE [im EXCEPT !.lastInputTime = time,
                    !.dispatched = Append(@, [type |-> eventType, timestamp |-> time])]

\* InputManager.handleInput(event) at Date.now() = time
handleInput(im, time, eventType) ==
    IF ~im.enabled THEN im
    ELSE IF time - im.lastInputTime < DEBOUNCE_MS THEN im
    ELSE [im EXCEPT !.lastInputTime = time,
                    !.dispatched = Append(@, [type |-> eventType, timestamp |-> time])]

\* the sources init() and the gamepad polling pass to handleInput
InputSources == {"touchstart", "click", "keydown", "gamepad"}

InputManagerInit == [enabled |-> TRUE, lastInputTime |-> 0, dispatched |-> <<>>]

(***************************************************************************)
(* Storage: the record kept under the key 'user-settings'.  A stored       *)
(* object is the set of its keys (has) and their values (val); the value   *)
(* of a key the object does not have is a fixed filler.                    *)
(***************************************************************************)
ToggleKeys == {"feedbackSoundsEnabled", "vibrationEnabled", "adaptiveDifficulty"}
DefaultKeys == {"currentN", "soundEnabled"} \cup ToggleKeys

NoSettings ==
    [has |-> {},
     val |-> [lastN |-> 0, trialCount |-> 0, currentN |-> 0, soundEnabled |-> TRUE,
              vibrationEnabled |-> TRUE, feedbackSoundsEnabled |-> TRUE,
              adaptiveDifficulty |-> TRUE]]

\* Storage.getDefaultSettings()
getDefaultSettings ==
    [has |-> DefaultKeys, val |-> [NoSettings.val EXCEPT !.currentN = 2]]

\* { ...a, ...b }
Spread(a, b) ==
    [has |-> a.has \cup b.has,
     val |-> [k \in DOMAIN a.val |-> IF k \in b.has THEN b.val[k] ELSE a.val[k]]]

\* Storage.getSettings() when the stored object is saved
getSettings(saved) == Spread(getDefaultSettings, saved)

\* Storage.saveSettings(settings): put() replaces the stored object
saveSettings(saved, settings) == settings

\* the object literal { lastN: n, trialCount }
LevelAndCount(n, trialCount) ==
    [has |-> {"lastN", "trialCount"},
     val |-> [NoSettings.val EXCEPT !.lastN = n, !.trialCount = trialCount]]

\* the toggle handler of the settings overlay: current[key] = isActive
WithToggle(current, key, isActive) ==
    [has |-> current.has \cup {key}, val |-> [current.val EXCEPT ![key] = isActive]]

(***************************************************************************)
(* main.js: the App.  Games are numbered in the order startGame is called; *)
(* the engine, the game screen, the two handlers and the wake lock that    *)
(* game g creates carry the number g, and 0 stands for null.               *)
(***************************************************************************)
Games == 1..MaxGames

NoGame ==
    [pc |-> "none", n |-> 0, trialCount |-> 0, engine |-> 0, block |-> "none",
     results |-> NoResults, nextLevel |-> 0, stopped |-> FALSE, exited |-> FALSE]

NoApp ==
    [saved |-> NoSettings, sessions |-> <<>>,
     screen |-> "none", overlay |-> FALSE, currentScreen |-> 0,
     shownLevel |-> 0, shownCount |-> 0, listeners |-> {}, toggles |-> 0,
     gameEngine |-> 0, gameScreen |-> 0, tapFeedbackHandler |-> 0,
     escHandler |-> 0, wakeLock |-> 0,
     pressHandlers |-> {}, keydownHandlers |-> {}, locksHeld |-> {},
     timersRunning |-> {}, audioLoaded |-> FALSE,
     feedbackSounds |-> [g \in Games |-> TRUE],
     engines |-> [g \in Games |-> "none"],
     games |-> [g \in Games |-> NoGame]]

AppIdle == now = DEBOUNCE_MS /\ inputManager = InputManagerInit /\ app = NoApp

(***************************************************************************)
(* The state after construction.                                           *)
(***************************************************************************)
GenInit == genCall = NoCall /\ genResult = NoSequence
ScorerInit == scorer = ScorerReset /\ recorded = NoRecorded /\ results = NoResults
LevelInit ==
    /\ levelCall = NoLevelCall
    /\ \E n0 \in ADAPTIVE_MIN_N..ADAPTIVE_MAX_N : level = [from |-> n0, to |-> n0]

NoLevel == [from |-> 0, to |-> 0]
InitGen ==
    GenInit /\ ScorerInit /\ levelCall = NoLevelCall /\ level = NoLevel
            /\ EngineInit /\ AppIdle /\ lastCall = "init"
InitScorer == InitGen
InitLevel ==
    GenInit /\ ScorerInit /\ LevelInit /\ EngineInit /\ AppIdle /\ lastCall = "init"
Init == InitGen

(***************************************************************************)
(* The sequence generator called on its own.                               *)
(***************************************************************************)
Generate ==
    \E n \in 0..MaxN, totalTrials \in 1..MaxTrials, matchRate \in MatchRates :
      \E s \in generateSequence(n, totalTrials, matchRate) :
        /\ lastCall \notin {"generateSequence", "generateSequencePlan"}
        /\ genCall' = [n |-> n, totalTrials |-> totalTrials, matchRate |-> matchRate]
        /\ genResult' = s
        /\ lastCall' = "generateSequence"
        /\ UNCHANGED <<appVars, scorer, recorded, results, levelVars, engineVars>>

\* generateSequence(n, baseTrials, guaranteedMatches), the call the
\* implementation plan documents: the third argument is a count of matches.
\* The function receives it as its matchRate parameter.
GeneratePlan ==
    \E n \in ADAPTIVE_MIN_N..MaxN, baseTrials \in 1..MaxTrials,
       guaranteedMatches \in 1..MaxPlanMatches :
      \E s \in generateSequence(n, baseTrials, Rat(guaranteedMatches, 1)) :
        /\ lastCall \notin {"generateSequence", "generateSequencePlan"}
        /\ genCall' = [n |-> n, totalTrials |-> baseTrials,
                       matchRate |-> Rat(guaranteedMatches, 1)]
        /\ genResult' = s
        /\ lastCall' = "generateSequencePlan"
        /\ UNCHANGED <<appVars, scorer, recorded, results, levelVars, engineVars>>

\* the caller drops the sequence before it asks for the next one
GenDrop ==
    /\ lastCall \in {"generateSequence", "generateSequencePlan"}
    /\ genCall' = NoCall
    /\ genResult' = NoSequence
    /\ lastCall' = "drop"
    /\ UNCHANGED <<appVars, scorer, recorded, results, levelVars, engineVars>>

GenNext == Generate \/ GeneratePlan \/ GenDrop
SpecGen == InitGen /\ [][GenNext]_vars

\* a generateSequence call of the range the contract covers has just returned
GenReturned ==
    /\ lastCall = "generateSequence"
    /\ genCall.n \in ADAPTIVE_MIN_N..ADAPTIVE_MAX_N
    /\ genCall.totalTrials >= genCall.n + 1

\* C1: in the sequence generateSequence returns, no index i >= n outside
\* matchPositions repeats the letter n positions back.
C1_NoAccidentalMatch ==
    GenReturned =>
        \A i \in genResult.n .. (genResult.totalTrials - 1) :
            ~Includes(genResult.matchPositions, i)
                => genResult.letters[i + 1] # genResult.letters[(i - genResult.n) + 1]

\* a returned sequence with a match position and a non-match position
C1_Witness ==
    /\ GenReturned
    /\ genResult.matchPositions # <<>>
    /\ \E i \in genResult.n .. (genResult.totalTrials - 1) :
           ~Includes(genResult.matchPositions, i)

\* C2: every match position p of the returned sequence carries the letter
\* finally stored at p - n.
C2_MatchesMatch ==
    GenReturned =>
        \A k \in 1..Len(genResult.matchPositions) :
            LET p == genResult.matchPositions[k]
            IN  genResult.letters[p + 1] = genResult.letters[(p - genResult.n) + 1]

\* a returned 2-back sequence whose match position copies a letter that differs
\* from its left neighbour, and follows a non-match position
C2_Witness ==
    /\ GenReturned
    /\ genResult.n = 2
    /\ \E k \in 1..Len(genResult.matchPositions) :
          LET p == genResult.matchPositions[k]
          IN  /\ genResult.letters[p + 1] # genResult.letters[p]
              /\ p > genResult.n
              /\ ~Includes(genResult.matchPositions, p - 1)

\* C3: the returned sequence has exactly max(1, round((totalTrials - n) *
\* matchRate)) match positions, so never none, for an explicit matchRate and
\* for the default one.
C3_MatchCount ==
    GenReturned =>
        /\ Len(genResult.matchPositions) >= 1
        /\ ~genCall.matchRate.undef =>
              Len(genResult.matchPositions)
                = Max(1, MathRound((genCall.totalTrials - genCall.n)
                                     * genCall.matchRate.num, genCall.matchRate.den))

\* C24: a call generateSequence(n, baseTrials, guaranteedMatches) as the
\* implementation plan documents it returns baseTrials + n trials (22 for
\* n = 2 and baseTrials = 20) and exactly guaranteedMatches match positions.
C24_PlanFormula ==
    (lastCall = "generateSequencePlan" /\ genCall.matchRate.num <= genCall.totalTrials) =>
        /\ genResult.totalTrials = genCall.totalTrials + genCall.n
        /\ Len(genResult.letters) = genCall.totalTrials + genCall.n
        /\ Len(genResult.matchPositions) = genCall.matchRate.num

\* the letters of the alphabet, as a set
Alphabet == { LETTERS[j] : j \in 1..Len(LETTERS) }

\* C17: for n in 1..9 and a requested totalTrials >= n + 1, generateSequence
\* returns the requested totalTrials and a letters array of that length whose
\* every element, the first n included, is a letter of the alphabet, never
\* null.
C17_LettersComplete ==
    GenReturned =>
        /\ genResult.totalTrials = genCall.totalTrials
        /\ genResult.n = genCall.n
        /\ Len(genResult.letters) = genCall.totalTrials
        /\ \A k \in 1..Len(genResult.letters) :
              genResult.letters[k] \in Alphabet /\ genResult.letters[k] # Null

\* a returned sequence longer than n + 1 with a match and a non-match position
C17_Witness ==
    /\ GenReturned
    /\ genCall.n = 2
    /\ genCall.totalTrials = MaxTrials
    /\ Len(genResult.letters) = MaxTrials
    /\ genResult.matchPositions # <<>>
    /\ Len(genResult.matchPositions) < genCall.totalTrials - genCall.n

\* a generateSequence call with totalTrials below n + 1 has just returned
GenClamped ==
    /\ lastCall = "generateSequence"
    /\ genCall.n \in ADAPTIVE_MIN_N..ADAPTIVE_MAX_N
    /\ genCall.totalTrials < genCall.n + 1

\* C21: generateSequence coerces an n outside 1..9 into the range, so the
\* sequence it returns has n >= 1 and keeps the match and non-match
\* invariants: a match position repeats the letter n back, every other
\* position from n on does not, and every letter is of the alphabet.
C21_LevelClamped ==
    lastCall = "generateSequence" =>
        /\ genResult.n \in ADAPTIVE_MIN_N..ADAPTIVE_MAX_N
        /\ \A i \in genResult.n .. (genResult.totalTrials - 1) :
              /\ genResult.letters[i + 1] \in Alphabet
              /\ Includes(genResult.matchPositions, i)
                    <=> (genResult.letters[i + 1]
                           = genResult.letters[(i - genResult.n) + 1])

\* C18: called with totalTrials < n + 1, generateSequence returns
\* totalTrials = n + 1, n + 1 letters, and the only eligible position n as a
\* match: matchPositions = [n] and letters[n] = letters[0].
C18_ClampedSequence ==
    GenClamped =>
        /\ genResult.totalTrials = genCall.n + 1
        /\ Len(genResult.letters) = genCall.n + 1
        /\ genResult.matchPositions = <<genCall.n>>
        /\ genResult.letters[genCall.n + 1] = genResult.letters[1]

\* C19: the matchPositions generateSequence returns are strictly ascending
\* and every one of them is at least n and below totalTrials.
C19_MatchPositionsSorted ==
    lastCall = "generateSequence" =>
        /\ \A k \in 1..Len(genResult.matchPositions) :
              /\ genResult.n <= genResult.matchPositions[k]
              /\ genResult.matchPositions[k] < genResult.totalTrials
        /\ \A k \in 1..(Len(genResult.matchPositions) - 1) :
              genResult.matchPositions[k] < genResult.matchPositions[k + 1]

\* a returned sequence with two match positions that are not neighbours
C19_Witness ==
    /\ lastCall = "generateSequence"
    /\ Len(genResult.matchPositions) = 2
    /\ genResult.matchPositions[2] > genResult.matchPositions[1] + 1

(***************************************************************************)
(* The scorer called on its own.                                           *)
(***************************************************************************)
ScorerRecordTrial ==
    \E userPressed \in BOOLEAN, wasMatch \in BOOLEAN :
        /\ recorded.hit + recorded.miss + recorded.falseAlarm
             + recorded.correctRejection < MaxRecorded
        /\ scorer' = RecordTrial(scorer, userPressed, wasMatch)
        /\ recorded' = [recorded EXCEPT ![Category(userPressed, wasMatch)] = @ + 1]
        /\ lastCall' = "recordTrial"
        /\ UNCHANGED <<appVars, genVars, results, levelVars, engineVars>>

ScorerGetResults ==
    /\ results' = GetResults(scorer)
    /\ lastCall' = "getResults"
    /\ UNCHANGED <<appVars, genVars, scorer, recorded, levelVars, engineVars>>

ScorerResetCall ==
    /\ scorer' = ScorerReset
    /\ recorded' = NoRecorded
    /\ lastCall' = "reset"
    /\ UNCHANGED <<appVars, genVars, results, levelVars, engineVars>>

ScorerNext == ScorerRecordTrial \/ ScorerGetResults \/ ScorerResetCall
SpecScorer == InitScorer /\ [][ScorerNext]_vars

\* C4: since the last reset each of hits, misses, falseAlarms and
\* correctRejections equals the number of recordTrial calls of its category:
\* (true,true) hit, (false,true) miss, (true,false) false alarm, (false,false)
\* correct rejection; so each call adds 1 to exactly one of them.
C4_OneCategoryPerTrial ==
    /\ scorer.hits = recorded.hit
    /\ scorer.misses = recorded.miss
    /\ scorer.falseAlarms = recorded.falseAlarm
    /\ scorer.correctRejections = recorded.correctRejection

\* every category has been recorded at least once since the last reset
C4_Witness ==
    /\ lastCall = "recordTrial"
    /\ recorded.hit >= 1 /\ recorded.miss >= 1
    /\ recorded.falseAlarm >= 1 /\ recorded.correctRejection >= 1

\* a rate r equals a / b when b > 0 and 0 when b = 0, and lies in [0, 1]
IsRate(r, a, b) ==
    /\ ~r.undef
    /\ r.den > 0
    /\ IF b = 0 THEN r.num = 0 ELSE r.num * b = a * r.den
    /\ 0 <= r.num /\ r.num <= r.den

\* C5: getResults returns hitRate = hits / totalMatches (0 without matches),
\* correctRejectionRate = correctRejections / totalNonMatches (0 without
\* non-matches) and accuracy = (hitRate + correctRejectionRate) / 2; the three
\* lie in [0, 1] and no denominator is 0.
C5_Rates ==
    lastCall = "getResults" =>
        /\ IsRate(results.hitRate, scorer.hits, scorer.totalMatches)
        /\ IsRate(results.correctRejectionRate, scorer.correctRejections,
                  scorer.totalNonMatches)
        /\ ~results.accuracy.undef
        /\ results.accuracy.den > 0
        /\ 0 <= results.accuracy.num
        /\ results.accuracy.num <= results.accuracy.den
        \* 2 * accuracy = hitRate + correctRejectionRate
        /\ 2 * results.accuracy.num * results.hitRate.den
                * results.correctRejectionRate.den
             = results.accuracy.den
                * (results.hitRate.num * results.correctRejectionRate.den
                   + results.correctRejectionRate.num * results.hitRate.den)

\* getResults on a tally without any match, and on one with both kinds
C5_Witness ==
    /\ lastCall = "getResults"
    /\ scorer.totalMatches = 0
    /\ scorer.totalNonMatches > 0
    /\ scorer.correctRejections > 0
    /\ scorer.falseAlarms > 0

(***************************************************************************)
(* calculateNextLevel called on its own, and over a chain of blocks.       *)
(***************************************************************************)
\* calculateNextLevel(currentN, accuracy) for any currentN around the range
LevelCall ==
    \E currentN \in (ADAPTIVE_MIN_N - 1)..(ADAPTIVE_MAX_N + 1), accuracy \in Accuracies :
        /\ levelCall' = [currentN |-> currentN, accuracy |-> accuracy,
                         nextLevel |-> calculateNextLevel(currentN, accuracy)]
        /\ lastCall' = "calculateNextLevel"
        /\ UNCHANGED <<appVars, genVars, scorer, recorded, results, level, engineVars>>

\* the next block starts at the level the previous block's accuracy gave
LevelChain ==
    \E accuracy \in Accuracies :
        /\ level' = [from |-> level.to, to |-> calculateNextLevel(level.to, accuracy)]
        /\ lastCall' = "nextBlock"
        /\ UNCHANGED <<appVars, genVars, scorer, recorded, results, levelCall, engineVars>>

LevelNext == LevelCall \/ LevelChain
SpecLevel == InitLevel /\ [][LevelNext]_vars

C7_LevelInRange ==
    /\ level.from \in 1..9
    /\ level.to \in 1..9
    /\ level.to - level.from \in {-1, 0, 1}
    /\ (lastCall = "calculateNextLevel" /\ levelCall.currentN \in 1..9) =>
          /\ levelCall.nextLevel \in 1..9
          /\ levelCall.nextLevel - levelCall.currentN \in {-1, 0, 1}

\* a chain that stayed at the ceiling although the accuracy asked for more
C7_Witness ==
    /\ lastCall = "nextBlock"
    /\ level.from = 9
    /\ level.to = 9

(***************************************************************************)
(* The engine: startBlock calls, their continuations when a timer fires,   *)
(* the control methods and the press handler.                              *)
(***************************************************************************)
Context(c) ==
    [engine |-> engine, scorer |-> scorer, recorded |-> recorded, input |-> input,
     call |-> calls[c], emitted |-> <<>>, played |-> <<>>]

\* setTimeout: a timer set later for at least as many milliseconds fires
\* later, so the sleep of call c can end only if every timer set before it
\* runs longer
CanFire(c) ==
    \E j \in 1..Len(timers) :
        /\ timers[j] = c
        /\ \A i \in 1..(j - 1) : SleepMs(calls[timers[i]].pc) > SleepMs(calls[c].pc)

\* the step of call c that ends in context x
Commit(c, x, name) ==
    /\ timers' = LET others == SelectSeq(timers, LAMBDA b : b # c)
                 IN  IF Sleeping(x.call.pc) THEN Append(others, c) ELSE others
    /\ engine' = x.engine
    /\ scorer' = x.scorer
    /\ recorded' = x.recorded
    /\ input' = x.input
    /\ calls' = [calls EXCEPT ![c] = x.call]
    /\ emitted' = x.emitted
    /\ played' = x.played
    /\ lastCall' = name
    /\ UNCHANGED <<appVars, genVars, results, levelVars>>

\* startBlock(n, trialCount), up to its first await, for an n and a
\* trialCount of the given sets
StartBlockWith(levels, trialCounts) ==
    \E c \in 1..MaxCalls, n \in levels, trialCount \in trialCounts :
      \E seq \in generateSequence(n, trialCount, Undefined) :
        /\ calls[c].pc = "none"
        /\ \A b \in 1..(c - 1) : calls[b].pc # "none"
        /\ LET x0 == Context(c)
               x1 == [x0 EXCEPT !.engine.currentN = n,
                                !.engine.trialCount = trialCount,
                                !.engine.sequence = seq,
                                !.scorer = ScorerReset,
                                !.recorded = NoRecorded,
                                !.engine.currentTrial = 0,
                                !.engine.state = "playing",
                                !.input = [enabled |-> TRUE, subscribed |-> TRUE],
                                !.call.n = n,
                                !.call.startedIn = engine.state,
                                !.call.k = seq.totalTrials,
                                !.call.pc = "entered"]
               x2 == Emit(x1, [type |-> "blockStart", index |-> 0, n |-> n,
                               totalTrials |-> seq.totalTrials])
           IN  Commit(c, LoopFrom([x2 EXCEPT !.engine.currentTrial = 0]),
                      "startBlock")

StartBlock == StartBlockWith(1..MaxBlockN, 1..MaxTrialCount)

\* a sleep awaited in runTrial ends: the response window, or the rest of the
\* inter-stimulus interval
RunTrialResumes ==
    \E c \in 1..MaxCalls :
        /\ calls[c].pc \in {"window", "isi"}
        /\ CanFire(c)
        /\ Commit(c, IF calls[c].pc = "window" THEN AfterWindow(Context(c))
                     ELSE AfterTrial(Context(c)),
                  "runTrial")

\* a sleep awaited in startBlock ends: the 100 ms wait while paused, or the
\* wait before the level-up sound
StartBlockResumes ==
    \E c \in 1..MaxCalls :
        /\ calls[c].pc \in {"pausePoll", "levelUp"}
        /\ CanFire(c)
        /\ Commit(c, IF calls[c].pc = "pausePoll" THEN AfterPause(Context(c))
                     ELSE Finish(Play(Context(c), "level-up"),
                                 calls[c].results, calls[c].nextLevel),
                  "sleep")

\* a control method or a handler, run outside any startBlock call
Control(name, newEngine, newInput, newCalls, events) ==
    /\ engine' = newEngine
    /\ input' = newInput
    /\ calls' = newCalls
    /\ emitted' = events
    /\ played' = <<>>
    /\ lastCall' = name
    /\ UNCHANGED <<appVars, genVars, scorer, recorded, results, levelVars, timers>>

\* the faulty variant: pause() without the check of the state
PauseFromAnyState ==
    Control("pause", [engine EXCEPT !.state = "paused"], input,
            [c \in 1..MaxCalls |->
               IF Pending(calls[c]) THEN [calls[c] EXCEPT !.paused = TRUE]
               ELSE calls[c]],
            <<[type |-> "paused", index |-> 0]>>)

\* pause()
Pause ==
    IF engine.state = "playing"
    THEN Control("pause", [engine EXCEPT !.state = "paused"], input,
                 [c \in 1..MaxCalls |->
                    IF Pending(calls[c]) THEN [calls[c] EXCEPT !.paused = TRUE]
                    ELSE calls[c]],
                 <<[type |-> "paused", index |-> 0]>>)
    ELSE Control("pause", engine, input, calls, <<>>)

\* resume()
Resume ==
    IF engine.state = "paused"
    THEN Control("resume", [engine EXCEPT !.state = "playing"], input, calls,
                 <<[type |-> "resumed", index |-> 0]>>)
    ELSE Control("resume", engine, input, calls, <<>>)

\* stop(); trialTimeout and isiTimeout are never set, so nothing is cleared
Stop ==
    Control("stop", [engine EXCEPT !.state = "idle"],
            [input EXCEPT !.subscribed = FALSE],
            [c \in 1..MaxCalls |->
               IF Pending(calls[c]) /\ calls[c].stopped = "no"
               THEN [calls[c] EXCEPT !.stopped = engine.state,
                                     !.log = Append(@, <<"stopped", 0>>)]
               ELSE calls[c]],
            <<[type |-> "stopped", index |-> 0]>>)

\* the input manager dispatches a press: _onPress runs if it is subscribed
Press ==
    /\ input.enabled
    /\ Control("press",
               IF input.subscribed /\ engine.state = "playing"
               THEN [engine EXCEPT !.userPressed = TRUE] ELSE engine,
               input,
               [c \in 1..MaxCalls |->
                  IF input.subscribed /\ calls[c].pc = "window"
                  THEN [calls[c] EXCEPT !.pressDelivered = TRUE]
                  ELSE calls[c]],
               <<>>)

Next == StartBlock \/ RunTrialResumes \/ StartBlockResumes
          \/ Pause \/ Resume \/ Stop \/ Press
Spec == Init /\ [][Next]_vars

States == {"idle", "playing", "paused", "complete"}

HasEvent(log, type) == \E j \in 1..Len(log) : log[j][1] = type

\* C8: a startBlock call that was pending when stop() was called in state
\* playing or paused resolves with null, has dispatched no blockComplete, and
\* finds the state idle when it resolves.
C8_StopYieldsNoResult ==
    \A c \in 1..MaxCalls :
        calls[c].stopped \in {"playing", "paused"} =>
            /\ ~HasEvent(calls[c].log, "blockComplete")
            /\ calls[c].pc # "threw"
            /\ calls[c].pc = "done" =>
                  /\ calls[c].ret = "null"
                  /\ calls[c].stateAtReturn = "idle"

\* the notifications of a block of k trials in the order the contract gives
RECURSIVE TrialPairs(_, _)
TrialPairs(t, k) ==
    IF t >= k THEN <<>>
    ELSE <<<<"trialStart", t>>, <<"trialEnd", t>>>> \o TrialPairs(t + 1, k)

ExpectedLog(k) == <<<<"blockStart", 0>>>> \o TrialPairs(0, k) \o <<<<"blockComplete", 0>>>>

IsPrefix(a, b) == Len(a) <= Len(b) /\ SubSeq(b, 1, Len(a)) = a

\* C9: a block of k trials that is never paused or stopped dispatches
\* blockStart, then trialStart(t), trialEnd(t) for t = 0..k-1 in order, then
\* one blockComplete; startBlock then resolves with a result in state complete.
C9_UninterruptedBlock ==
    \A c \in 1..MaxCalls :
        (calls[c].pc # "none" /\ ~calls[c].paused /\ calls[c].stopped = "no") =>
            /\ IsPrefix(calls[c].log, ExpectedLog(calls[c].k))
            /\ calls[c].pc # "threw"
            /\ calls[c].pc = "done" =>
                  /\ calls[c].log = ExpectedLog(calls[c].k)
                  /\ calls[c].ret = "result"
                  /\ calls[c].stateAtReturn = "complete"

\* C10: pause() changes the state only from playing to paused, resume() only
\* from paused to playing; in any other state the call leaves the state as it
\* is and dispatches nothing.  The state is always one of the four.
C10_PauseResume ==
    /\ engine.state \in States
    /\ [][/\ engine'.state \in States
          /\ lastCall' = "pause" =>
                IF engine.state = "playing"
                THEN engine'.state = "paused" /\ Len(emitted') = 1
                       /\ emitted'[1].type = "paused"
                ELSE engine'.state = engine.state /\ emitted' = <<>>
          /\ lastCall' = "resume" =>
                IF engine.state = "paused"
                THEN engine'.state = "playing" /\ Len(emitted') = 1
                       /\ emitted'[1].type = "resumed"
                ELSE engine'.state = engine.state /\ emitted' = <<>>
       ]_vars

\* pause() was called on a completed block and left it complete
C10_Witness ==
    /\ lastCall = "pause"
    /\ engine.state = "complete"
    /\ emitted = <<>>

\* a trial was scored in this step
TrialScored(c) == calls[c].pc = "window" /\ calls'[c].pc # "window"

\* the response the step recorded to the scorer
RecordedPressed ==
    recorded'.hit + recorded'.falseAlarm > recorded.hit + recorded.falseAlarm

\* C11: the response recorded for a trial is true exactly if the press handler
\* was invoked at least once between the trial's trialStart and the end of its
\* response window, in whatever state the engine was when the press arrived.
C11_PressLatched ==
    [][\A c \in 1..MaxCalls :
          TrialScored(c) => (RecordedPressed <=> calls[c].pressDelivered)]_vars

\* the tally the step added 1 to, leaving the other three as they were
Tallied(category) ==
    recorded' = [recorded EXCEPT ![category] = @ + 1]

Dispatched(events, type) == \E j \in 1..Len(events) : events[j].type = type

\* C13: no trialStart is dispatched while the state is paused, so the next
\* trial starts only after the state has left paused; and the trial in flight
\* is scored and dispatches its trialEnd whatever the state, paused included.
C13_PauseAtBoundary ==
    /\ [](Dispatched(emitted, "trialStart") => engine.state # "paused")
    /\ [][\A c \in 1..MaxCalls :
            TrialScored(c) =>
                /\ \E category \in DOMAIN recorded : Tallied(category)
                /\ Len(emitted') = 1
                /\ emitted'[1].type = "trialEnd"
                /\ emitted'[1].index = calls[c].trialIndex
                /\ engine'.state = engine.state]_vars

\* pause() was called during a response window and the trial has just been
\* scored, the state still paused
C13_Witness ==
    /\ engine.state = "paused"
    /\ lastCall = "runTrial"
    /\ Dispatched(emitted, "trialEnd")
    /\ recorded.correctRejection + recorded.falseAlarm >= 1

\* the part of a call's log after the stopped notification
RECURSIVE AfterStopped(_)
AfterStopped(log) ==
    IF log = <<>> THEN <<>>
    ELSE IF Head(log)[1] = "stopped" THEN Tail(log)
    ELSE AfterStopped(Tail(log))

CountEvents(log, type) == Cardinality({j \in 1..Len(log) : log[j][1] = type})

\* C14: after stop() was called while a block was pending, the block
\* dispatches no further trialStart and at most one trialEnd (the trial in
\* flight, recorded once).
C14_StopIsCooperative ==
    \A c \in 1..MaxCalls :
        calls[c].stopped # "no" =>
            /\ CountEvents(AfterStopped(calls[c].log), "trialStart") = 0
            /\ CountEvents(AfterStopped(calls[c].log), "trialEnd") <= 1

\* C15: the state becomes complete only from playing, never directly from
\* paused; no blockComplete is dispatched and no startBlock call returns a
\* result by a step taken in state paused.
C15_CompleteOnlyFromPlaying ==
    [][/\ (engine'.state = "complete" /\ engine.state # "complete")
            => engine.state = "playing"
       /\ engine.state = "paused" =>
            /\ ~Dispatched(emitted', "blockComplete")
            /\ \A c \in 1..MaxCalls :
                  (calls[c].ret # "result") => (calls'[c].ret # "result")]_vars

\* C16: a startBlock call made while the state is playing or paused changes
\* nothing: the sequence, the trial counter, the scorer's tallies and the
\* state stay as they are, nothing is dispatched, and no second trial loop is
\* started.
C16_StartBlockNoOpWhileRunning ==
    [][(lastCall' = "startBlock" /\ engine.state \in {"playing", "paused"}) =>
          /\ engine' = engine
          /\ scorer' = scorer
          /\ emitted' = <<>>
          /\ \A c \in 1..MaxCalls : Pending(calls'[c]) => Pending(calls[c])]_vars

\* the result getResults gives for a scorer without any trial
ZeroResults == GetResults(ScorerReset)

\* the trials a result counts
TrialsCounted(res) == res.hits + res.misses + res.falseAlarms + res.correctRejections

\* C20: startBlock resets the scorer, after which getResults gives the zero
\* result (all four tallies and all three rates 0), as it does after any
\* number of resets; so the result a block returns counts the trials of that
\* block and no others.
C20_ResetPerBlock ==
    /\ TrialsCounted(ZeroResults) = 0
    /\ \A rate \in {ZeroResults.hitRate, ZeroResults.correctRejectionRate,
                     ZeroResults.accuracy} :
          ~rate.undef /\ rate.num = 0 /\ rate.den > 0
    /\ lastCall = "startBlock" => GetResults(scorer) = ZeroResults
    /\ \A c \in 1..MaxCalls :
          calls[c].ret = "result" =>
              TrialsCounted(calls[c].results) = CountEvents(calls[c].log, "trialEnd")

\* C22: whether or not a sound has a buffer (play changes nothing in the
\* engine either way), a block that is not stopped dispatches blockStart, the
\* pairs trialStart(t), trialEnd(t) for t = 0..k-1 in order and then
\* blockComplete, and completes with a result; a trial in whose window no
\* press was delivered is recorded as not responded.
C22_ProceedsRegardless ==
    /\ [](\A c \in 1..MaxCalls :
            (calls[c].pc # "none" /\ calls[c].stopped = "no") =>
                /\ IsPrefix(calls[c].log, ExpectedLog(calls[c].k))
                /\ calls[c].pc \in {"done", "threw"} =>
                      /\ calls[c].log = ExpectedLog(calls[c].k)
                      /\ calls[c].ret = "result")
    /\ [][\A c \in 1..MaxCalls :
            (TrialScored(c) /\ ~calls[c].pressDelivered) => ~RecordedPressed]_vars

(***************************************************************************)
(* The engine driven with blocks of different levels that are started and  *)
(* stopped, without pause() and without presses.                           *)
(***************************************************************************)
BlockLevels == {1, 3}

StartBlockAtLevels == StartBlockWith(BlockLevels, {1})

BlocksNext == StartBlockAtLevels \/ RunTrialResumes \/ Stop
SpecBlocks == Init /\ [][BlocksNext]_vars

\* the step in which startBlock call c returns its result
Completes(c) == calls[c].ret = "pending" /\ calls'[c].ret = "result"

\* C23: a completing block plays block-complete once, then level-up once
\* exactly if nextLevel > n, and only then dispatches its one blockComplete,
\* which carries results, nextLevel = calculateNextLevel(n, results.accuracy)
\* and currentN; startBlock returns the same results and nextLevel.
C23_BlockCompletion ==
    [][\A c \in 1..MaxCalls :
          /\ Completes(c) =>
                LET event == emitted'[Len(emitted')]
                    n == calls[c].n
                IN  /\ event.type = "blockComplete"
                    /\ CountEvents(calls'[c].log, "blockComplete") = 1
                    /\ event.results = calls'[c].results
                    /\ event.nextLevel = calls'[c].nextLevel
                    /\ event.nextLevel = calculateNextLevel(n, event.results.accuracy)
                    /\ event.sounds = Len(played')
                    /\ IF event.nextLevel > n
                       THEN calls[c].pc = "levelUp" /\ played' = <<"level-up">>
                       ELSE calls[c].pc # "levelUp" /\ played' = <<"block-complete">>
          /\ (calls[c].pc # "levelUp" /\ calls'[c].pc = "levelUp") =>
                /\ played' = <<"block-complete">>
                /\ ~Dispatched(emitted', "blockComplete")]_vars

\* the names of the sounds the audio manager loads
SoundIds ==
    { "letter-" \o ToLowerCase(l) : l \in Alphabet }
        \cup {"hit", "miss", "false-alarm", "block-complete", "level-up"}

\* the cue of a category, as the sounds a scoring step plays
CueOf(userPressed, wasMatch) ==
    IF wasMatch /\ userPressed THEN <<"hit">>
    ELSE IF wasMatch THEN <<"miss">>
    ELSE IF userPressed THEN <<"false-alarm">>
    ELSE <<>>

\* call c started a trial in this step
TrialStarted(c) == calls[c].pc # "window" /\ calls'[c].pc = "window"

\* call c went to sleep for ms milliseconds at the end of this step
SleepsFor(c, ms) ==
    /\ timers' # <<>>
    /\ timers'[Len(timers')] = c
    /\ SleepMs(calls'[c].pc) = ms

\* C25: the step that starts trial t clears the pressed flag, then dispatches
\* trialStart(t), then plays the stimulus of letters[t], records nothing and
\* waits the response window; the step after the window records the trial
\* once, then plays the cue if there is one, then dispatches trialEnd(t) whose
\* userPressed is the recorded response, whose wasMatch says whether t is a
\* match position and whose correct says whether the two agree, and waits the
\* rest of the interval.  Every sound played is one the audio manager loads.
C25_TrialOrder ==
    /\ [](\A j \in 1..Len(played) : played[j] \in SoundIds)
    /\ [][\A c \in 1..MaxCalls :
            /\ TrialStarted(c) =>
                  LET t == calls'[c].trialIndex
                      event == emitted'[Len(emitted')]
                  IN  /\ event.type = "trialStart"
                      /\ event.index = t
                      /\ ~event.pressed
                      /\ event.sounds = 0
                      /\ played' = <<"letter-" \o ToLowerCase(engine'.sequence.letters[t + 1])>>
                      /\ ~engine'.userPressed
                      /\ lastCall' # "startBlock" => scorer' = scorer /\ recorded' = recorded
                      /\ SleepsFor(c, TIMING_RESPONSE_WINDOW)
            /\ TrialScored(c) =>
                  LET t == calls[c].trialIndex
                      event == emitted'[1]
                  IN  /\ Len(emitted') = 1
                      /\ event.type = "trialEnd"
                      /\ event.index = t
                      /\ event.userPressed = RecordedPressed
                      /\ event.wasMatch = Includes(engine.sequence.matchPositions, t)
                      /\ event.correct = (event.userPressed = event.wasMatch)
                      /\ scorer' = RecordTrial(scorer, event.userPressed, event.wasMatch)
                      /\ Tallied(Category(event.userPressed, event.wasMatch))
                      /\ played' = CueOf(event.userPressed, event.wasMatch)
                      /\ event.sounds = Len(played')
                      /\ SleepsFor(c, TIMING_ISI - TIMING_RESPONSE_WINDOW)]_vars

\* a trial that was answered has just been scored: its cue was played and its
\* trialEnd dispatched after it
C25_Witness ==
    /\ lastCall = "runTrial"
    /\ played = <<"false-alarm">>
    /\ Len(emitted) = 1
    /\ emitted[1].type = "trialEnd"
    /\ emitted[1].index = 1
    /\ emitted[1].userPressed
    /\ emitted[1].sounds = 1

\* the trialEnd notifications of trial t in a log: the times the trial was
\* recorded
TimesRecorded(log, t) == Cardinality({j \in 1..Len(log) : log[j] = <<"trialEnd", t>>})

\* C26: while startBlock has been called once on the engine, under any
\* pause(), resume() and presses, no trial index is recorded twice and the
\* scorer holds one trial for each trialEnd; when the block has completed,
\* every index 0..totalTrials-1 was recorded once, the four tallies of the
\* result add up to totalTrials, and hits + misses is the number of match
\* positions of the sequence.
C26_OncePerTrial ==
    calls[2].pc = "none" =>
        LET call == calls[1]
        IN  /\ \A t \in 0..(call.k - 1) : TimesRecorded(call.log, t) <= 1
            /\ CountEvents(call.log, "trialEnd") = CountEvents(call.log, "trialStart")
                  - (IF call.pc = "window" THEN 1 ELSE 0)
            /\ recorded.hit + recorded.miss + recorded.falseAlarm
                  + recorded.correctRejection = CountEvents(call.log, "trialEnd")
            /\ call.ret = "result" =>
                  /\ \A t \in 0..(call.k - 1) : TimesRecorded(call.log, t) = 1
                  /\ CountEvents(call.log, "trialEnd") = call.k
                  /\ call.k = engine.sequence.totalTrials
                  /\ TrialsCounted(call.results) = engine.sequence.totalTrials
                  /\ call.results.hits + call.results.misses
                        = Len(engine.sequence.matchPositions)

\* a single block of two trials has completed after it was paused, with one
\* trial answered and one not
C26_Witness ==
    /\ calls[2].pc = "none"
    /\ calls[1].ret = "result"
    /\ calls[1].paused
    /\ calls[1].k = 2
    /\ calls[1].results.falseAlarms = 1
    /\ calls[1].results.correctRejections = 1

\* C27: a press changes no tally and no outcome already recorded; every trial
\* starts with the pressed flag cleared; and a trial is recorded as pressed
\* only if the press handler was invoked in that trial's response window.  So
\* a press in the rest of the interval or at a trial boundary counts for no
\* trial.
C27_PressOutsideWindow ==
    [][/\ lastCall' = "press" =>
             scorer' = scorer /\ recorded' = recorded /\ emitted' = <<>>
       /\ \A c \in 1..MaxCalls :
             /\ TrialStarted(c) => ~engine'.userPressed
             /\ (TrialScored(c) /\ RecordedPressed) => calls[c].pressDelivered]_vars

\* a press has been latched outside every response window: the trial before
\* it was recorded as not pressed and its call waits in the rest of the
\* interval
C27_Witness ==
    /\ lastCall = "press"
    /\ engine.userPressed
    /\ \A c \in 1..MaxCalls : calls[c].pc # "window"
    /\ calls[1].pc = "isi"
    /\ recorded.falseAlarm = 0
    /\ recorded.correctRejection = 1

\* the call is in the loop of its block and stop() has not been called on it
InBlock(call) == call.pc \in {"window", "isi", "pausePoll"} /\ call.stopped = "no"

\* C28: the press handler is subscribed while a startBlock call is in its
\* block; once every call has resolved or stop() has been called, with no
\* block started since, the handler is unsubscribed, and a press then changes
\* neither the pressed flag nor a tally.
C28_SubscribedDuringBlock ==
    /\ [](\A c \in 1..MaxCalls : InBlock(calls[c]) => input.subscribed)
    /\ []((\A c \in 1..MaxCalls : ~InBlock(calls[c])
                                       /\ calls[c].pc \notin {"entered", "levelUp"})
             => ~input.subscribed)
    /\ [][(lastCall' = "press" /\ ~input.subscribed) =>
             /\ engine' = engine
             /\ scorer' = scorer
             /\ recorded' = recorded]_vars

\* the 100 ms sleep of call c, waiting while paused, ended in this step
Ticked(c) ==
    LET others == SelectSeq(timers, LAMBDA b : b # c)
    IN  /\ lastCall' = "sleep"
        /\ calls[c].pc = "pausePoll"
        /\ timers # <<>>
        /\ timers' \in {others, Append(others, c)}
        /\ \A b \in 1..MaxCalls : b # c => calls'[b] = calls[b]

\* C29: a call that waits paused sleeps one poll interval at a time.  At a
\* tick that finds the state paused it sleeps again and dispatches nothing; at
\* a tick that finds the state playing, after resume(), it starts the trial
\* the loop is at; and at the first tick after stop() was called it leaves
\* the loop without a trialStart and resolves with null.
C29_PausePoll ==
    [][\A c \in 1..MaxCalls :
          Ticked(c) =>
              /\ engine.state = "paused" =>
                    /\ calls'[c].pc = "pausePoll"
                    /\ emitted' = <<>>
                    /\ SleepsFor(c, PAUSE_POLL_MS)
              /\ (engine.state = "playing" /\ calls[c].stopped = "no") =>
                    /\ calls'[c].pc = "window"
                    /\ calls'[c].trialIndex = engine.currentTrial
                    /\ Len(emitted') = 1
                    /\ emitted'[1].type = "trialStart"
                    /\ emitted'[1].index = engine.currentTrial
              /\ calls[c].stopped # "no" =>
                    /\ ~Dispatched(emitted', "trialStart")
                    /\ calls'[c].pc = "done"
                    /\ calls'[c].ret = "null"]_vars

\* the continuation of call c when the sleep it awaits ends
Continue(c) ==
    CASE calls[c].pc = "window" -> AfterWindow(Context(c))
      [] calls[c].pc = "isi" -> AfterTrial(Context(c))
      [] calls[c].pc = "pausePoll" -> AfterPause(Context(c))
      [] calls[c].pc = "levelUp" -> Finish(Play(Context(c), "level-up"),
                                          calls[c].results, calls[c].nextLevel)

\* the timer of call c fires and the call runs on to its next await
TimerFires(c) ==
    /\ Sleeping(calls[c].pc)
    /\ CanFire(c)
    /\ Commit(c, Continue(c),
              IF calls[c].pc \in {"window", "isi"} THEN "runTrial" ELSE "sleep")

\* The engine under a scheduler that lets every timer fire: a sleep that can
\* end does end.
SpecFair == Init /\ [][Next]_vars /\ \A c \in 1..MaxCalls : WF_vars(TimerFires(c))

\* startBlock call c has resolved, with a result or with null
Resolved(c) == calls[c].ret \in {"result", "null"}

\* every pause is eventually followed by resume() or stop()
PauseAnswered ==
    [](engine.state = "paused" => <>(lastCall \in {"resume", "stop"}))

\* C30: no startBlock call is rejected, and if every pause is eventually
\* followed by resume() or stop(), every startBlock call eventually resolves;
\* a call that waits at a trial boundary while the state stays paused for
\* ever never resolves and starts no trial.
C30_EventuallyResolves ==
    /\ [](\A c \in 1..MaxCalls : calls[c].pc # "threw")
    /\ PauseAnswered =>
          \A c \in 1..MaxCalls : (calls[c].pc # "none") ~> Resolved(c)
    /\ \A c \in 1..MaxCalls :
          []((calls[c].pc = "pausePoll" /\ [](engine.state = "paused"))
               => [](calls[c].pc = "pausePoll" /\ ~Resolved(c)))

\* the recordTrial calls since the last reset
RecordTrialCalls ==
    recorded.hit + recorded.miss + recorded.falseAlarm + recorded.correctRejection

\* C31: after any recordTrial and reset calls hits + misses = totalMatches and
\* falseAlarms + correctRejections = totalNonMatches, none of the six counters
\* is negative, and the four outcome counters add up to the number of
\* recordTrial calls since the last reset; getResults changes no counter.
C31_CounterInvariants ==
    /\ [](/\ scorer.hits + scorer.misses = scorer.totalMatches
          /\ scorer.falseAlarms + scorer.correctRejections = scorer.totalNonMatches
          /\ \A counter \in DOMAIN scorer : scorer[counter] >= 0
          /\ scorer.hits + scorer.misses + scorer.falseAlarms
                + scorer.correctRejections = RecordTrialCalls)
    /\ [][lastCall' = "getResults" => scorer' = scorer]_vars

\* getResults was called on a scorer that holds trials of three categories
C31_Witness ==
    /\ lastCall = "getResults"
    /\ scorer.hits = 1
    /\ scorer.misses = 1
    /\ scorer.falseAlarms = 1
    /\ results.hits = 1

\* stop() was called while the call waited in the response window of a trial:
\* the stopped notification follows a trialStart in its log
StoppedInTrial(log) ==
    \E j \in 2..Len(log) : log[j][1] = "stopped" /\ log[j - 1][1] = "trialStart"

\* the trialStart notifications of trial t in a log
TimesStarted(log, t) == Cardinality({j \in 1..Len(log) : log[j] = <<"trialStart", t>>})

\* C32: when stop() was called during a trial of the first block and
\* startBlock was then called again in state idle, the stopped call starts no
\* further trial and resolves with null, the tallies hold the new block's
\* trials and no others, and the new block dispatches one trialStart per
\* index and completes with tallies that add up to its totalTrials.
C32_RestartIsolated ==
    (/\ calls[1].stopped \in {"playing", "paused"}
     /\ StoppedInTrial(calls[1].log)
     /\ calls[2].startedIn = "idle"
     /\ calls[2].stopped = "no") =>
        /\ CountEvents(AfterStopped(calls[1].log), "trialStart") = 0
        /\ calls[1].pc # "threw"
        /\ calls[1].ret # "result"
        /\ RecordTrialCalls = CountEvents(calls[2].log, "trialEnd")
        /\ \A t \in 0..(calls[2].k - 1) : TimesStarted(calls[2].log, t) <= 1
        /\ calls[2].pc \in {"done", "threw"} =>
              /\ calls[2].ret = "result"
              /\ \A t \in 0..(calls[2].k - 1) : TimesStarted(calls[2].log, t) = 1
              /\ TrialsCounted(calls[2].results) = calls[2].k

(***************************************************************************)
(* The end of a block over a sequence that has match positions.  The       *)
(* engine generates no such sequence itself (generateSequence is called    *)
(* with its default matchRate), so the hits a level-up needs are never     *)
(* scored from construction; here the state is drawn at the last trial of  *)
(* a block whose sequence came from generateSequence with an explicit      *)
(* matchRate, with any tallies the scorer can hold for it, and the code    *)
(* after the loop of startBlock runs from there.                           *)
(***************************************************************************)
\* the counters of the scorer after the k trials of a sequence with the given
\* number of match positions, hits and false alarms
ScorerAfter(k, matches, hits, falseAlarms) ==
    [hits |-> hits, misses |-> matches - hits, falseAlarms |-> falseAlarms,
     correctRejections |-> (k - matches) - falseAlarms,
     totalMatches |-> matches, totalNonMatches |-> k - matches]

\* the notifications of a block of k trials up to its last trialEnd
LogOfTrials(k) == <<<<"blockStart", 0>>>> \o TrialPairs(0, k)

InitBlockEnd ==
    /\ GenInit /\ results = NoResults /\ levelCall = NoLevelCall /\ level = NoLevel
    /\ AppIdle
    /\ lastCall = "init"
    /\ emitted = <<>>
    /\ played = <<>>
    /\ timers = <<1>>
    /\ input = [enabled |-> TRUE, subscribed |-> TRUE]
    /\ \E n \in ADAPTIVE_MIN_N..MaxN :
         \E seq \in generateSequence(n, n + 2, Rat(1, 2)) :
           \E hits \in 0..Len(seq.matchPositions) :
             \E falseAlarms \in 0..(seq.totalTrials - Len(seq.matchPositions)) :
               /\ engine = [state |-> "playing", currentN |-> n, trialCount |-> n + 2,
                            sequence |-> seq, currentTrial |-> seq.totalTrials - 1,
                            userPressed |-> FALSE]
               /\ scorer = ScorerAfter(seq.totalTrials, Len(seq.matchPositions),
                                       hits, falseAlarms)
               /\ recorded = [hit |-> scorer.hits, miss |-> scorer.misses,
                              falseAlarm |-> scorer.falseAlarms,
                              correctRejection |-> scorer.correctRejections]
               /\ calls = [c \in 1..MaxCalls |->
                             IF c = 1
                             THEN [NoCallRec EXCEPT !.pc = "isi", !.n = n,
                                     !.trialIndex = seq.totalTrials - 1,
                                     !.k = seq.totalTrials,
                                     !.log = LogOfTrials(seq.totalTrials),
                                     !.startedIn = "idle"]
                             ELSE NoCallRec]

BlockEndNext == RunTrialResumes \/ StartBlockResumes \/ Pause \/ Resume \/ Stop
SpecBlockEnd == InitBlockEnd /\ [][BlockEndNext]_vars

ClockTick ==
    /\ now + ClockStep <= MaxNow
    /\ now' = now + ClockStep
    /\ lastCall' = "tick"
    /\ UNCHANGED <<genVars, scorer, recorded, results, levelVars, engineVars,
                   inputManager, app>>

HandleInput ==
    \E eventType \in InputSources :
        /\ inputManager' = handleInput(inputManager, now, eventType)
        /\ lastCall' = "handleInput"
        /\ UNCHANGED <<genVars, scorer, recorded, results, levelVars, engineVars,
                       now, app>>

\* enable() and disable()
SetEnabled ==
    \E enabled \in BOOLEAN :
        /\ inputManager' = [inputManager EXCEPT !.enabled = enabled]
        /\ lastCall' = IF enabled THEN "enable" ELSE "disable"
        /\ UNCHANGED <<genVars, scorer, recorded, results, levelVars, engineVars,
                       now, app>>

InputNext == ClockTick \/ HandleInput \/ SetEnabled
SpecInput == Init /\ [][InputNext]_vars

\* C34: handleInput dispatches a press only if input is enabled and at least
\* debounceMs have passed since the last dispatched press, and then stamps
\* lastInputTime; an input that is dropped dispatches nothing and leaves
\* lastInputTime as it is.  So any two dispatched presses, of whatever
\* sources, are at least debounceMs apart.
C34_Debounce ==
    /\ [](\A i, j \in 1..Len(inputManager.dispatched) :
             i < j => inputManager.dispatched[j].timestamp
                        - inputManager.dispatched[i].timestamp >= DEBOUNCE_MS)
    /\ [](inputManager.dispatched # <<>> =>
             inputManager.lastInputTime
               = inputManager.dispatched[Len(inputManager.dispatched)].timestamp)
    /\ [][lastCall' = "handleInput" =>
             IF inputManager.enabled /\ now - inputManager.lastInputTime >= DEBOUNCE_MS
             THEN /\ Len(inputManager'.dispatched) = Len(inputManager.dispatched) + 1
                  /\ inputManager'.lastInputTime = now
             ELSE inputManager' = inputManager]_vars

\* two presses of different sources were dispatched exactly debounceMs apart,
\* and an input that came within the interval after them was dropped
C34_Witness ==
    /\ lastCall = "handleInput"
    /\ Len(inputManager.dispatched) = 2
    /\ inputManager.dispatched[1].type = "touchstart"
    /\ inputManager.dispatched[2].type = "gamepad"
    /\ inputManager.dispatched[2].timestamp
          = inputManager.dispatched[1].timestamp + DEBOUNCE_MS
    /\ inputManager.enabled
    /\ now = inputManager.lastInputTime + ClockStep

(***************************************************************************)
(* main.js: the steps of the App.  startGame is cut at its awaits; every   *)
(* this.field is read when the step that uses it runs.  An engine is its   *)
(* state; a startBlock call is summarised by how it ends: it returns null  *)
(* when its loop finds the engine idle, and otherwise completes the block  *)
(* over a sequence without matches (MATCH_RATE is undefined), with any     *)
(* number of false alarms.                                                 *)
(***************************************************************************)
AppStep(name, a) ==
    /\ app' = a
    /\ lastCall' = name
    /\ UNCHANGED <<genVars, scorer, recorded, results, levelVars, engineVars,
                   now, inputManager>>

\* Renderer.render(screen): the screen shown before is cleaned up, and the
\* cleanup of a game screen stops its timer
RenderOver(a) == [a EXCEPT !.timersRunning = @ \ {a.currentScreen}, !.overlay = FALSE]

\* App.releaseWakeLock()
releaseWakeLock(a) == [a EXCEPT !.locksHeld = @ \ {a.wakeLock}, !.wakeLock = 0]

\* init() and the End button of the results screen: showStartScreen()
ShowStartScreen ==
    /\ app.screen \in {"none", "results"}
    /\ AppStep("showStartScreen",
               [RenderOver(app) EXCEPT !.screen = "start", !.currentScreen = 0])

\* a toggle of the settings overlay of the start screen
ToggleSetting ==
    /\ app.screen = "start"
    /\ app.toggles < MaxToggles
    /\ \E key \in ToggleKeys, isActive \in BOOLEAN :
          AppStep("toggleSetting",
                  [app EXCEPT !.saved =
                      saveSettings(@, WithToggle(getSettings(@), key, isActive)),
                              !.toggles = @ + 1])

\* startGame(n, trialCount) up to its first await: onStart of the start
\* screen with the level and count selected there, onContinue of the results
\* screen with the next level it shows
StartGame ==
    \E g \in Games, n \in ADAPTIVE_MIN_N..MaxN, trialCount \in 1..MaxGameTrials :
        /\ app.games[g].pc = "none"
        /\ \A h \in Games : h < g => app.games[h].pc # "none"
        /\ \/ app.screen = "start"
           \/ app.screen = "results" /\ n = app.shownLevel /\ trialCount = app.shownCount
        /\ AppStep("startGame",
                   [app EXCEPT !.saved = saveSettings(@, LevelAndCount(n, trialCount)),
                               !.games[g] = [NoGame EXCEPT !.pc = "wakeLock", !.n = n,
                                                           !.trialCount = trialCount]])

\* await acquireWakeLock() returns, with or without a lock; new GameEngine
AfterWakeLock ==
    \E g \in Games, granted \in BOOLEAN :
        /\ app.games[g].pc = "wakeLock"
        /\ AppStep("acquireWakeLock",
                   [app EXCEPT !.wakeLock = IF granted THEN g ELSE @,
                               !.locksHeld = IF granted THEN @ \cup {g} ELSE @,
                               !.gameEngine = g,
                               !.engines[g] = "idle",
                               !.games[g].pc = "getSettings"])

\* GameEngine.setFeedbackSoundsEnabled(enabled), called on this.gameEngine:
\* the engine keeps the flag
setFeedbackSoundsEnabled(a, enabled) ==
    [a EXCEPT !.feedbackSounds[a.gameEngine] = enabled]

\* await getSettings() returns; setFeedbackSoundsEnabled; new GameScreen
AfterGetSettings ==
    \E g \in Games :
        /\ app.games[g].pc = "getSettings"
        /\ AppStep("getSettings",
                   [setFeedbackSoundsEnabled(app,
                        getSettings(app.saved).val.feedbackSoundsEnabled)
                      EXCEPT !.gameScreen = g, !.games[g].pc = "render"])

\* await render(gameScreen) returns; the trialStart listener, the press
\* handler and the Escape handler are installed
AfterRender ==
    \E g \in Games :
        /\ app.games[g].pc = "render"
        /\ AppStep("render",
                   [RenderOver(app) EXCEPT
                        !.screen = "game", !.currentScreen = g,
                        !.listeners = @ \cup {app.gameEngine},
                        !.tapFeedbackHandler = g, !.pressHandlers = @ \cup {g},
                        !.escHandler = g, !.keydownHandlers = @ \cup {g},
                        !.games[g].pc = "preload"])

\* AudioManager.preload(): the buffers are loaded when its promise resolves,
\* some time after the call
preload(a) == [a EXCEPT !.audioLoaded = TRUE]

\* await preload() returns; this.gameEngine.startBlock(n, trialCount) runs up
\* to its first await: the engine is playing and trialStart 0 is dispatched
AfterPreload ==
    \E g \in Games :
        /\ app.games[g].pc = "preload"
        /\ AppStep("startBlock",
                   [preload(app) EXCEPT
                        !.engines[app.gameEngine] = "playing",
                        !.timersRunning = IF app.gameEngine \in app.listeners
                                          THEN @ \cup {app.gameScreen} ELSE @,
                        !.games[g].engine = app.gameEngine,
                        !.games[g].block = "running",
                        !.games[g].pc = "block"])

\* what the startBlock call of game g has come to when its loop ends
BlockOutcome(a, g, falseAlarms) ==
    LET gm == a.games[g]
        res == GetResults(ScorerAfter(gm.trialCount, 0, 0, falseAlarms))
        next == calculateNextLevel(gm.n, res.accuracy)
    IN  IF gm.block = "levelUp"
        THEN [a EXCEPT !.games[g].block = "result"]
        ELSE IF a.engines[gm.engine] = "idle"
        THEN [a EXCEPT !.games[g].block = "null"]
        ELSE [a EXCEPT !.engines[gm.engine] = "complete",
                       !.games[g].results = res,
                       !.games[g].nextLevel = next,
                       !.games[g].block = IF next > gm.n THEN "levelUp" ELSE "result"]

\* the session object startGame passes to saveSession, as saveSession stores it
SessionOf(gm, time) ==
    [n |-> gm.n, trialCount |-> gm.trialCount, hits |-> gm.results.hits,
     misses |-> gm.results.misses, falseAlarms |-> gm.results.falseAlarms,
     correctRejections |-> gm.results.correctRejections,
     accuracy |-> gm.results.accuracy, hitRate |-> gm.results.hitRate,
     correctRejectionRate |-> gm.results.correctRejectionRate,
     nextLevel |-> gm.nextLevel, timestamp |-> time]

\* await startBlock returns to startGame: the clean-up, then saveSession if
\* there is a result.  Each saved session is kept with the game that saved it.
AfterBlock(a, g, time) ==
    LET cleaned == [releaseWakeLock(a) EXCEPT
                        !.timersRunning = @ \ {a.gameScreen},
                        !.pressHandlers = @ \ {a.tapFeedbackHandler},
                        !.keydownHandlers = @ \ {a.escHandler}]
    IN  IF a.games[g].block = "result"
        THEN [cleaned EXCEPT !.sessions = Append(@, [game |-> g,
                                                     session |-> SessionOf(a.games[g], time)]),
                             !.games[g].pc = "saveSession"]
        ELSE [cleaned EXCEPT !.games[g].pc = "done"]

\* the loop of the startBlock call of game g ends, or its level-up wait
\* does; when the call returns, startGame goes on in the same task
StartBlockReturns ==
    \E g \in Games, falseAlarms \in 0..MaxGameTrials :
        /\ app.games[g].pc = "block"
        /\ app.games[g].block \in {"running", "levelUp"}
        /\ app.games[g].block = "running" => app.engines[app.games[g].engine] # "paused"
        /\ falseAlarms <= app.games[g].trialCount
        /\ app.games[g].block = "levelUp" \/ app.engines[app.games[g].engine] = "idle"
              => falseAlarms = 0
        /\ LET ended == BlockOutcome(app, g, falseAlarms)
           IN  IF ended.games[g].block = "levelUp"
               THEN AppStep("levelUpWait", ended)
               ELSE AppStep("cleanup", AfterBlock(ended, g, now))

\* await saveSession returns: saveSettings({ lastN: nextLevel, trialCount })
\* and the results screen
AfterSaveSession ==
    \E g \in Games :
        /\ app.games[g].pc = "saveSession"
        /\ AppStep("saveSession",
                   [RenderOver(app) EXCEPT
                        !.saved = saveSettings(@, LevelAndCount(app.games[g].nextLevel,
                                                                app.games[g].trialCount)),
                        !.screen = "results", !.currentScreen = 0,
                        !.shownLevel = app.games[g].nextLevel,
                        !.shownCount = app.games[g].trialCount,
                        !.games[g].results = NoResults,
                        !.games[g].pc = "done"])

\* pauseGame(): the pause button of the game screen or the Escape handler
PauseGame ==
    /\ app.screen = "game" /\ ~app.overlay
    /\ app.gameEngine # 0
    /\ AppStep("pauseGame",
               [app EXCEPT !.engines[app.gameEngine] =
                               IF @ = "playing" THEN "paused" ELSE @,
                           !.timersRunning = @ \ {app.gameScreen},
                           !.overlay = TRUE])

\* the Resume button of the pause overlay
ResumeGame ==
    /\ app.screen = "game" /\ app.overlay
    /\ AppStep("resumeGame",
               [app EXCEPT !.engines[app.gameEngine] =
                               IF @ = "paused" THEN "playing" ELSE @,
                           !.timersRunning = @ \cup {app.gameScreen},
                           !.overlay = FALSE])

\* exitGame(): the Exit button of the pause overlay.  stop() reaches every
\* startBlock call running on this.gameEngine; the game exited is the one
\* whose screen is shown.
ExitGame ==
    /\ app.screen = "game" /\ app.overlay
    /\ AppStep("exitGame",
               [RenderOver(releaseWakeLock(app)) EXCEPT
                    !.engines[app.gameEngine] = "idle",
                    !.games = [g \in Games |->
                        [@[g] EXCEPT
                            !.stopped = @ \/ (app.games[g].block = "running"
                                              /\ app.games[g].engine = app.gameEngine),
                            !.exited = @ \/ g = app.currentScreen]],
                    !.screen = "start", !.currentScreen = 0])

AppNext ==
    \/ ShowStartScreen \/ ToggleSetting \/ StartGame \/ AfterWakeLock
    \/ AfterGetSettings \/ AfterRender \/ AfterPreload
    \/ StartBlockReturns \/ AfterSaveSession \/ PauseGame \/ ResumeGame \/ ExitGame
SpecApp == Init /\ [][AppNext]_vars

\* the values getSettings() returns for the toggles of the settings overlay
TogglesOf(saved) == [key \in ToggleKeys |-> getSettings(saved).val[key]]

\* C35: the two saveSettings calls of startGame, the one that persists the
\* level and trial count when the game starts and the one after a completed
\* block, leave the toggles getSettings() returns as they were.
C35_TogglesKept ==
    [][lastCall' \in {"startGame", "saveSession"}
          => TogglesOf(app'.saved) = TogglesOf(app.saved)]_vars

\* the number of sessions game g has saved
SessionsBy(a, g) == Cardinality({i \in DOMAIN a.sessions : a.sessions[i].game = g})

\* startBlock has returned a result to the startGame call of game g
ReturnedResult(a, g) ==
    a.games[g].pc \in {"saveSession", "done"} /\ a.games[g].block = "result"

\* C36: a game has saved one session if its startBlock call has returned a
\* result and none otherwise; the session holds n, trialCount, the tallies
\* and rates of the result, nextLevel and the time of saving, and the step
\* after it persists lastN = nextLevel; a game whose block was running when
\* stop() was called saves no session and does not write the settings again.
C36_SessionIffResult ==
    /\ [](\A g \in Games :
            /\ SessionsBy(app, g) = IF ReturnedResult(app, g) THEN 1 ELSE 0
            /\ app.games[g].pc = "saveSession" =>
                  LET session == app.sessions[CHOOSE i \in DOMAIN app.sessions :
                                                 app.sessions[i].game = g].session
                      gm == app.games[g]
                  IN  /\ session.n = gm.n /\ session.trialCount = gm.trialCount
                      /\ session.hits + session.misses + session.falseAlarms
                            + session.correctRejections = gm.trialCount
                      /\ [k \in DOMAIN gm.results |-> session[k]] = gm.results
                      /\ session.nextLevel = calculateNextLevel(gm.n, session.accuracy)
                      /\ session.timestamp = now
            /\ app.games[g].stopped => SessionsBy(app, g) = 0)
    /\ [][\A g \in Games :
            /\ app.games[g].pc = "saveSession" /\ app'.games[g].pc = "done"
                  => /\ app'.saved.val.lastN = app.games[g].nextLevel
                     /\ app'.sessions = app.sessions
            /\ app.games[g].stopped /\ app'.games[g] # app.games[g]
                  => app'.saved = app.saved]_vars

\* C37: the clean-up that follows the startBlock call of a game that was
\* exited stops no timer, removes no handler and releases no wake lock of
\* another game.
C37_CleanupOwn ==
    [][\A g \in Games :
          (/\ app.games[g].exited /\ app.games[g].stopped
           /\ app.games[g].pc = "block" /\ app'.games[g].pc # "block")
             => /\ app.timersRunning \ app'.timersRunning \subseteq {g}
                /\ app.pressHandlers \ app'.pressHandlers \subseteq {g}
                /\ app.keydownHandlers \ app'.keydownHandlers \subseteq {g}
                /\ app.locksHeld \ app'.locksHeld \subseteq {g}]_vars
====
